---- MODULE Spec2Model ----
(***************************************************************************)
(* Model of src/main.py: the feature extractor analyze_song_as_scores and  *)
(* the request handler analyze_audio (POST /analyze/).                     *)
(*                                                                         *)
(* Numbers.  The raw features are numpy floats; they are modelled as exact *)
(* rationals n/d extended with NaN, +inf and -inf, with the comparison and *)
(* division rules of IEEE floats as numpy applies them (a comparison with  *)
(* NaN is false, x/0 is +-inf or NaN and raises nothing).  Binary rounding *)
(* is not modelled.                                                        *)
(***************************************************************************)
EXTENDS Integers, FiniteSets, Sequences, TLC

VARIABLES
    \* ---- the extractor called on its own (SpecScores) ----
    ex_exists,      \* os.path.exists(file_path) of the call
    ex_lib,         \* what the library calls of the call return or raise
    ex_result,      \* the outcome of the call
    \* ---- the request handler (Spec) ----
    fs,             \* temp directory: name -> request whose file is linked there (0: none)
    content,        \* request -> what the file it created holds
    loop,           \* worker process -> request its event loop is running (0: idle)
    worker,         \* request -> worker process that serves it (0: not arrived)
    pc,             \* request -> position in analyze_audio
    filename,       \* request -> file.filename ("<unset>": not arrived)
    body,           \* request -> "content" of line 60: the kind of the bytes read
    temp_file_path, \* request -> name of its temporary file (0: none created)
    analysis_data,  \* request -> value returned by analyze_song_as_scores
    pending,        \* request -> the return value or exception in flight
    body_read,      \* request -> file.read() was called
    extractor_called, \* request -> analyze_song_as_scores was called
    read_from,      \* request -> owner of the file its extractor opened (0: none)
    deleted         \* request -> owners of the files its os.remove calls unlinked

vars == <<ex_exists, ex_lib, ex_result, fs, content, loop, worker, pc, filename,
          body, temp_file_path, analysis_data, pending, body_read,
          extractor_called, read_from, deleted>>

ex_vars == <<ex_exists, ex_lib, ex_result>>

req_vars == <<fs, content, loop, worker, pc, filename, body, temp_file_path,
              analysis_data, pending, body_read, extractor_called, read_from,
              deleted>>

----------------------------------------------------------------------------
(* Extended rationals                                                      *)

RECURSIVE Gcd(_, _)
Gcd(a, b) == IF b = 0 THEN a ELSE Gcd(b, a % b)

Abs(x) == IF x < 0 THEN -x ELSE x

NaN == [k |-> "nan", n |-> 0, d |-> 1]

Inf(s) == [k |-> "inf", n |-> s, d |-> 1]

\* n/d in lowest terms with a positive denominator (d # 0)
Fin(n, d) ==
    LET g == Gcd(Abs(n), Abs(d))
        s == IF d < 0 THEN -1 ELSE 1
    IN  [k |-> "fin", n |-> (s * n) \div g, d |-> (s * d) \div g]

Num(n) == Fin(n, 1)

Sign(x) == IF x.n > 0 THEN 1 ELSE IF x.n < 0 THEN -1 ELSE 0

\* a < b on floats: false when either side is NaN
FLt(a, b) ==
    IF a.k = "nan" \/ b.k = "nan" THEN FALSE
    ELSE IF a.k = "inf" THEN a.n < 0 /\ ~(b.k = "inf" /\ b.n < 0)
    ELSE IF b.k = "inf" THEN b.n > 0
    ELSE a.n * b.d < b.n * a.d

FGt(a, b) == FLt(b, a)

FNeg(a) == IF a.k = "nan" THEN NaN ELSE [a EXCEPT !.n = -a.n]

FAdd(a, b) ==
    IF a.k = "nan" \/ b.k = "nan" THEN NaN
    ELSE IF a.k = "inf" /\ b.k = "inf" THEN (IF a.n = b.n THEN a ELSE NaN)
    ELSE IF a.k = "inf" THEN a
    ELSE IF b.k = "inf" THEN b
    ELSE Fin(a.n * b.d + b.n * a.d, a.d * b.d)

FSub(a, b) == FAdd(a, FNeg(b))

FMul(a, b) ==
    IF a.k = "nan" \/ b.k = "nan" THEN NaN
    ELSE IF a.k = "inf" \/ b.k = "inf"
         THEN (IF Sign(a) * Sign(b) = 0 THEN NaN ELSE Inf(Sign(a) * Sign(b)))
    ELSE Fin(a.n * b.n, a.d * b.d)

\* numpy scalar division: a zero divisor gives +-inf or NaN, never an exception
FDiv(a, b) ==
    IF a.k = "nan" \/ b.k = "nan" THEN NaN
    ELSE IF a.k = "inf" /\ b.k = "inf" THEN NaN
    ELSE IF a.k = "inf" THEN Inf(IF Sign(b) < 0 THEN -a.n ELSE a.n)
    ELSE IF b.k = "inf" THEN Num(0)
    ELSE IF b.n = 0 THEN (IF a.n = 0 THEN NaN ELSE Inf(Sign(a)))
    ELSE Fin(a.n * b.d, a.d * b.n)

\* Python's max(a, b): the first argument unless the second is greater
py_max_nolower(a, b) == b

py_max(a, b) == IF FGt(b, a) THEN b ELSE a

\* Python's min(a, b): the first argument unless the second is smaller
py_min(a, b) == IF FLt(b, a) THEN b ELSE a

\* float(x) of a numpy scalar: the same value, widened
float(x) == x

----------------------------------------------------------------------------
(* analyze_song_as_scores                                                  *)

ScoreFields == {"tempo_bpm", "rhythmic_strength", "timbre_brightness",
                "energy_level", "harmonic_vs_percussive", "timbre_richness"}

\* the library calls inside the try block, in program order
Steps == <<"load", "beat_track", "onset_strength", "spectral_centroid", "rms",
           "hpss", "rms_harmonic", "rms_percussive", "spectral_bandwidth">>

StepNames == {Steps[i] : i \in 1..Len(Steps)}

\* what a raised exception is: a subclass of Exception, or a BaseException
\* that is not one (KeyboardInterrupt arriving during the blocking call)
ExcKinds == {"Exception", "KeyboardInterrupt"}

\* outcomes of a call
None == [tag |-> "None"]

Dict(m) == [tag |-> "dict", d |-> m]

Raise(e) == [tag |-> "raise", exc |-> e]

NotCalled == [tag |-> "not_called"]

\* the shared shape of lines 26, 28, 30 and 37
LinearScore(raw, offset, scale) ==
    py_min(Num(100),
           py_max(Num(0), FMul(FDiv(FSub(raw, offset), scale), Num(100))))

rhythm_score_offset0(rhythm_strength) ==
    LinearScore(rhythm_strength, Num(0), Fin(8, 10))

rhythm_score(rhythm_strength) ==
    LinearScore(rhythm_strength, Fin(2, 10), Fin(8, 10))

brightness_score(spectral_centroid) ==
    LinearScore(spectral_centroid, Num(1000), Num(4000))

energy_score(rms) == LinearScore(rms, Fin(1, 100), Fin(24, 100))

richness_score(spectral_bandwidth) ==
    LinearScore(spectral_bandwidth, Num(1000), Num(2000))

hp_ratio_unguarded(harmonic_strength, percussive_strength) ==
    FDiv(harmonic_strength, percussive_strength)

hp_ratio(harmonic_strength, percussive_strength) ==
    IF FGt(percussive_strength, Num(0))
    THEN FDiv(harmonic_strength, percussive_strength)
    ELSE Num(1)

dominance_score(ratio) ==
    py_min(Num(100),
           py_max(Num(0), FMul(FDiv(ratio, FAdd(ratio, Num(1))), Num(200))))

\* lines 38-45
results(lib) ==
    [tempo_bpm              |-> float(lib.tempo),
     rhythmic_strength      |-> float(rhythm_score(lib.onset)),
     timbre_brightness      |-> float(brightness_score(lib.centroid)),
     energy_level           |-> float(energy_score(lib.rms)),
     harmonic_vs_percussive |->
         float(dominance_score(hp_ratio(lib.harmonic, lib.percussive))),
     timbre_richness        |-> float(richness_score(lib.bandwidth))]

\* a version whose handler catches only the errors of load
analyze_song_narrow_except(exists, lib) ==
    IF ~exists THEN None
    ELSE IF lib.raises = "load" /\ lib.exc = "Exception" THEN None
    ELSE IF lib.raises # "none" THEN Raise(lib.exc)
    ELSE Dict(results(lib))

\* exists: os.path.exists(file_path).  lib: the values the library calls
\* return, and the first call that raises (lib.raises) with what it raises.
analyze_song_as_scores(exists, lib) ==
    IF ~exists THEN None
    ELSE IF lib.raises # "none"
         THEN (IF lib.exc = "Exception" THEN None ELSE Raise(lib.exc))
    ELSE Dict(results(lib))

----------------------------------------------------------------------------
(* Inputs of the extractor                                                 *)

Tempos == {Num(0), Num(120)}

Onsets == {NaN, Fin(-1, 10), Fin(2, 10), Fin(6, 10), Num(1), Fin(15, 10)}

Centroids == {NaN, Num(-500), Num(1000), Num(3000), Num(5000), Num(8000)}

RmsValues == {NaN, Num(0), Fin(1, 100), Fin(13, 100), Fin(25, 100), Num(1)}

Bandwidths == {NaN, Num(0), Num(1000), Num(2500), Num(3000), Num(5000)}

Harmonics == {NaN, Fin(-1, 10), Num(0), Fin(1, 20), Fin(1, 10), Fin(3, 10)}

Percussives == {NaN, Fin(-1, 10), Num(0), Fin(1, 20), Fin(1, 10)}

\* every combination of raw values, no call raising
LibValues ==
    [raises : {"none"}, exc : {"Exception"}, tempo : Tempos, onset : Onsets,
     centroid : Centroids, rms : RmsValues, harmonic : Harmonics,
     percussive : Percussives, bandwidth : Bandwidths]

\* a mid-range track, a silent one, and one with degenerate features
SampleValues ==
    {[raises |-> "none", exc |-> "Exception", tempo |-> Num(120),
      onset |-> Fin(6, 10), centroid |-> Num(3000), rms |-> Fin(13, 100),
      harmonic |-> Fin(1, 10), percussive |-> Fin(1, 20),
      bandwidth |-> Num(2500)],
     [raises |-> "none", exc |-> "Exception", tempo |-> Num(0),
      onset |-> NaN, centroid |-> Num(-500), rms |-> Num(0),
      harmonic |-> Num(0), percussive |-> Num(0), bandwidth |-> Num(0)]}

\* a library call raises
LibFailures ==
    {[v EXCEPT !.raises = s, !.exc = e] :
        v \in SampleValues, s \in StepNames, e \in ExcKinds}

\* librosa.load on bytes that are no audio (or on an empty file)
LoadError ==
    [(CHOOSE v \in SampleValues : v.tempo = Num(0))
        EXCEPT !.raises = "load", !.exc = "Exception"]

----------------------------------------------------------------------------
(* Requests, and the extractor called on its own                           *)

NumReqs == 2

NumNames == 2

Reqs == 1..NumReqs

\* the names tempfile can generate in the temp directory
Names == 1..NumNames

\* server processes sharing the temp directory, one event loop each
Workers == {1, 2}

\* file.filename: absent, empty, or a name
Filenames == {"<None>", "", "song.mp3"}

\* the uploaded bytes: decodable audio, or not
BodyKinds == {"audio", "corrupt"}

NoOutcome == [tag |-> "none"]

Return(v) == [tag |-> "return", value |-> v]

HTTPException(s, d) == [tag |-> "HTTPException", status_code |-> s, detail |-> d]

Error(e) == [tag |-> "error", exc |-> e]

ReqInit ==
    /\ fs = [n \in Names |-> 0]
    /\ content = [r \in Reqs |-> "none"]
    /\ loop = [w \in Workers |-> 0]
    /\ pc = [r \in Reqs |-> "idle"]
    /\ worker = [r \in Reqs |-> 0]
    /\ filename = [r \in Reqs |-> "<unset>"]
    /\ temp_file_path = [r \in Reqs |-> 0]
    /\ analysis_data = [r \in Reqs |-> NotCalled]
    /\ pending = [r \in Reqs |-> NoOutcome]
    /\ body_read = [r \in Reqs |-> FALSE]
    /\ extractor_called = [r \in Reqs |-> FALSE]
    /\ read_from = [r \in Reqs |-> 0]
    /\ deleted = [r \in Reqs |-> {}]
    /\ body = [r \in Reqs |-> "unread"]

InitScores ==
    /\ \/ ex_exists = TRUE /\ ex_lib \in LibValues \cup LibFailures
       \/ ex_exists = FALSE /\ ex_lib \in SampleValues \cup LibFailures
    /\ ex_result = NotCalled
    /\ ReqInit

Extract ==
    /\ ex_result = NotCalled
    /\ ex_result' = analyze_song_as_scores(ex_exists, ex_lib)
    /\ UNCHANGED <<ex_exists, ex_lib, req_vars>>

NextScores == Extract

SpecScores == InitScores /\ [][NextScores]_vars

----------------------------------------------------------------------------
(* analyze_audio                                                           *)
(*                                                                         *)
(* The handler is a coroutine: inside one worker process its code runs     *)
(* without interruption from one await to the next (the only await is      *)
(* file.read(), line 60).  Worker processes share the temp directory and   *)
(* interleave at the level of file-system calls.                           *)

\* "not file.filename" (line 55) with the absent-only test "is None"
Falsy_none_only(f) == f = "<None>"

\* "not file.filename" (line 55): None and "" are both falsy
Falsy(f) == f \in {"<None>", ""}

\* os.remove that leaves the directory entry in place
unlink_noop(files, p) == files

\* the directory after os.remove(p) succeeded
unlink(files, p) == [files EXCEPT ![p] = 0]

\* tempfile opens with O_EXCL: a name generated for a new file is not the
\* name of a file that exists
FreeNames(files) == {n \in Names : files[n] = 0}

\* what the library does with the file the extractor opens
LibOutcomes(exists, kind) ==
    IF exists /\ kind = "audio" THEN SampleValues \cup LibFailures
    ELSE {LoadError}

\* what try/else (lines 65-69) leaves in flight when the finally block starts
AfterExtractor(res) ==
    IF res.tag = "raise" THEN Error(res.exc)
    ELSE IF res.tag = "dict" THEN Return(res.d)
    ELSE HTTPException(500, "Analysis failed")

\* the status of the response the framework sends for what leaves the
\* handler: the route's default for a returned value, the status of an
\* HTTPException, 500 for any other exception
status_code(outcome) ==
    IF outcome.tag = "return" THEN 200
    ELSE IF outcome.tag = "HTTPException" THEN outcome.status_code
    ELSE 500

Init ==
    /\ ReqInit
    /\ ex_exists = FALSE
    /\ ex_lib = LoadError
    /\ ex_result = NotCalled

\* the workers a request can arrive at; they are interchangeable, so
\* request 1 is served by worker 1
ArrivesAt(r) == IF r = 1 THEN {1} ELSE Workers

\* a request arrives with its file.filename; lines 55-59 up to the await of
\* line 60
Begin(r) ==
    /\ pc[r] = "idle"
    /\ \E w \in ArrivesAt(r) :
           /\ loop[w] = 0
           /\ worker' = [worker EXCEPT ![r] = w]
    /\ \E f \in Filenames : filename' = [filename EXCEPT ![r] = f]
    /\ IF Falsy(filename'[r])
       THEN /\ pending' = [pending EXCEPT
                   ![r] = HTTPException(400, "No file part in the request")]
            /\ pc' = [pc EXCEPT ![r] = "done"]
            /\ UNCHANGED <<fs, content, temp_file_path>>
       ELSE \E n \in FreeNames(fs) :
            /\ fs' = [fs EXCEPT ![n] = r]
            /\ content' = [content EXCEPT ![r] = "empty"]
            /\ temp_file_path' = [temp_file_path EXCEPT ![r] = n]
            /\ pc' = [pc EXCEPT ![r] = "read"]
            /\ UNCHANGED pending
    /\ UNCHANGED <<ex_vars, loop, body, analysis_data, body_read,
                   extractor_called, read_from, deleted>>

\* line 60: content = await file.read(); the coroutine resumes on its loop
Read(r) ==
    /\ pc[r] = "read"
    /\ loop[worker[r]] = 0
    /\ body_read' = [body_read EXCEPT ![r] = TRUE]
    /\ \/ /\ \E k \in BodyKinds : body' = [body EXCEPT ![r] = k]
          /\ pc' = [pc EXCEPT ![r] = "write"]
          /\ loop' = [loop EXCEPT ![worker[r]] = r]
          /\ UNCHANGED pending
       \/ \* the read raises: the with block closes the file and the error
          \* leaves the handler
          /\ pc' = [pc EXCEPT ![r] = "done"]
          /\ pending' = [pending EXCEPT ![r] = Error("ReadError")]
          /\ UNCHANGED <<loop, body>>
    /\ UNCHANGED <<ex_vars, fs, content, worker, filename, temp_file_path,
                   analysis_data, extractor_called, read_from, deleted>>

\* lines 61-62 and the end of the with block
Write(r) ==
    /\ pc[r] = "write"
    /\ loop[worker[r]] = r
    /\ \/ /\ content' = [content EXCEPT ![r] = body[r]]
          /\ pc' = [pc EXCEPT ![r] = "extract"]
          /\ UNCHANGED <<pending, loop>>
       \/ \* the write raises (no space left on the device)
          /\ pc' = [pc EXCEPT ![r] = "done"]
          /\ pending' = [pending EXCEPT ![r] = Error("OSError")]
          /\ loop' = [loop EXCEPT ![worker[r]] = 0]
          /\ UNCHANGED content
    /\ UNCHANGED <<ex_vars, fs, worker, filename, body, temp_file_path,
                   analysis_data, body_read, extractor_called, read_from,
                   deleted>>

\* lines 65-69
Analyze(r) ==
    /\ pc[r] = "extract"
    /\ loop[worker[r]] = r
    /\ LET p      == temp_file_path[r]
           exists == fs[p] # 0
           kind   == IF exists THEN content[fs[p]] ELSE "none"
       IN  \E lib \in LibOutcomes(exists, kind) :
           LET res == analyze_song_as_scores(exists, lib)
           IN  /\ analysis_data' = [analysis_data EXCEPT ![r] = res]
               /\ pending' = [pending EXCEPT ![r] = AfterExtractor(res)]
               /\ read_from' = [read_from EXCEPT ![r] = fs[p]]
    /\ extractor_called' = [extractor_called EXCEPT ![r] = TRUE]
    /\ pc' = [pc EXCEPT ![r] = "remove1"]
    /\ UNCHANGED <<ex_vars, fs, content, loop, worker, filename, body,
                   temp_file_path, body_read, deleted>>

\* line 71: the first os.remove of the finally block
Remove1(r) ==
    /\ pc[r] = "remove1"
    /\ loop[worker[r]] = r
    /\ LET p == temp_file_path[r]
       IN  IF fs[p] = 0
           THEN \* FileNotFoundError replaces what was in flight
                /\ pending' = [pending EXCEPT ![r] = Error("FileNotFoundError")]
                /\ pc' = [pc EXCEPT ![r] = "done"]
                /\ loop' = [loop EXCEPT ![worker[r]] = 0]
                /\ UNCHANGED <<fs, deleted>>
           ELSE /\ fs' = unlink(fs, p)
                /\ deleted' = [deleted EXCEPT ![r] = @ \cup {fs[p]}]
                /\ pc' = [pc EXCEPT ![r] = "remove2"]
                /\ UNCHANGED <<pending, loop>>
    /\ UNCHANGED <<ex_vars, content, worker, filename, body, temp_file_path,
                   analysis_data, body_read, extractor_called, read_from>>

\* line 72: the second os.remove of the finally block
Remove2(r) ==
    /\ pc[r] = "remove2"
    /\ loop[worker[r]] = r
    /\ LET p == temp_file_path[r]
       IN  IF fs[p] = 0
           THEN /\ pending' = [pending EXCEPT ![r] = Error("FileNotFoundError")]
                /\ UNCHANGED <<fs, deleted>>
           ELSE /\ fs' = unlink(fs, p)
                /\ deleted' = [deleted EXCEPT ![r] = @ \cup {fs[p]}]
                /\ UNCHANGED pending
    /\ pc' = [pc EXCEPT ![r] = "done"]
    /\ loop' = [loop EXCEPT ![worker[r]] = 0]
    /\ UNCHANGED <<ex_vars, content, worker, filename, body, temp_file_path,
                   analysis_data, body_read, extractor_called, read_from>>

Next ==
    \E r \in Reqs :
        \/ Begin(r)
        \/ Read(r)
        \/ Write(r)
        \/ Analyze(r)
        \/ Remove1(r)
        \/ Remove2(r)

Spec == Init /\ [][Next]_vars

----------------------------------------------------------------------------
(* Properties of analyze_song_as_scores (checked under SpecScores)         *)

ReturnedDict == ex_result.tag = "dict"

\* C5: a call returns a mapping with all six score fields or None, never a
\* partial mapping; when the path does not exist, or a library step raises
\* an error (an Exception), the call returns None and raises nothing.
C5_AllOrNone ==
    ex_result.tag # "not_called" =>
        /\ ReturnedDict => DOMAIN ex_result.d = ScoreFields
        /\ ~ex_exists => ex_result.tag = "None"
        /\ (ex_lib.raises \in StepNames /\ ex_lib.exc = "Exception")
               => ex_result.tag = "None"
        /\ ex_result.tag = "raise" => ex_lib.exc # "Exception"

\* the separation step raised on an existing file and the call returned None
C5_Witness ==
    /\ ex_exists
    /\ ex_lib.raises = "hpss"
    /\ ex_lib.exc = "Exception"
    /\ ex_result.tag = "None"

BoundedFields == ScoreFields \ {"tempo_bpm"}

InRange(v) == v.k = "fin" /\ 0 <= v.n /\ v.n <= 100 * v.d

\* C6: whenever a mapping is returned, each of the five bounded scores is a
\* number in [0, 100], for every combination of raw values, negative and
\* NaN values and a harmonic or percussive RMS of 0 included.
C6_ScoresInRange ==
    ReturnedDict => \A f \in BoundedFields : InRange(ex_result.d[f])

\* a mapping was returned for negative raw values and both RMS values 0
C6_Witness ==
    /\ ReturnedDict
    /\ ex_lib.onset = Fin(-1, 10)
    /\ ex_lib.centroid = Num(-500)
    /\ ex_lib.harmonic = Num(0)
    /\ ex_lib.percussive = Num(0)

\* (raw - on/od) / (sn/sd) * 100 clamped to [0, 100], computed on the
\* integers for a finite raw value
ClampedLinear(raw, on, od, sn, sd) ==
    LET num == raw.n * od - on * raw.d
        den == raw.d * od
    IN  IF num <= 0 THEN Num(0)
        ELSE IF num * sd >= sn * den THEN Num(100)
        ELSE Fin(100 * num * sd, den * sn)

\* C8: for every finite raw value each linearly mapped score is
\* min(100, max(0, (raw - offset) / scale * 100)) with (offset, scale) =
\* (0.2, 0.8), (1000, 4000), (0.01, 0.24), (1000, 2000); onset strength 0.2
\* gives 0, 1.0 gives 100, and values outside [0.2, 1.0] give 0 or 100.
C8_LinearScores ==
    ReturnedDict =>
        /\ ex_lib.onset.k = "fin" =>
              /\ ex_result.d.rhythmic_strength
                     = ClampedLinear(ex_lib.onset, 1, 5, 4, 5)
              /\ ex_lib.onset = Fin(1, 5) => ex_result.d.rhythmic_strength = Num(0)
              /\ ex_lib.onset = Num(1) => ex_result.d.rhythmic_strength = Num(100)
              /\ FLt(ex_lib.onset, Fin(1, 5)) => ex_result.d.rhythmic_strength = Num(0)
              /\ FGt(ex_lib.onset, Num(1)) => ex_result.d.rhythmic_strength = Num(100)
        /\ ex_lib.centroid.k = "fin" =>
              ex_result.d.timbre_brightness
                  = ClampedLinear(ex_lib.centroid, 1000, 1, 4000, 1)
        /\ ex_lib.rms.k = "fin" =>
              ex_result.d.energy_level
                  = ClampedLinear(ex_lib.rms, 1, 100, 6, 25)
        /\ ex_lib.bandwidth.k = "fin" =>
              ex_result.d.timbre_richness
                  = ClampedLinear(ex_lib.bandwidth, 1000, 1, 2000, 1)

\* onset strength exactly 0.2, a centroid and an RMS strictly inside the
\* linear part, a bandwidth below the offset
C8_Witness ==
    /\ ReturnedDict
    /\ ex_lib.onset = Fin(1, 5)
    /\ ex_lib.centroid = Num(3000)
    /\ ex_result.d.timbre_brightness = Num(50)
    /\ ex_lib.rms = Fin(13, 100)
    /\ ex_result.d.energy_level = Num(50)
    /\ ex_lib.bandwidth = Num(0)

\* h / (h + p) * 200 clamped to [0, 100], computed on the integers for
\* finite h and p with h + p # 0
ClampedDominance(h, p) ==
    LET v == Fin(200 * h.n * p.d, h.n * p.d + p.n * h.d)
    IN  IF v.n <= 0 THEN Num(0)
        ELSE IF v.n >= 100 * v.d THEN Num(100)
        ELSE v

\* C9: when the percussive RMS is exactly 0 the ratio is 1.0 whatever the
\* harmonic RMS is (no division happens) and harmonic_vs_percussive is 100;
\* when it is positive the ratio is harmonic/percussive and the score is
\* min(100, max(0, ratio / (ratio + 1) * 200)).
C9_Dominance ==
    ReturnedDict =>
        /\ ex_lib.percussive = Num(0) =>
              /\ hp_ratio(ex_lib.harmonic, ex_lib.percussive) = Num(1)
              /\ ex_result.d.harmonic_vs_percussive = Num(100)
        /\ ( /\ FGt(ex_lib.percussive, Num(0))
             /\ ex_lib.harmonic.k = "fin"
             /\ FAdd(ex_lib.harmonic, ex_lib.percussive) # Num(0) ) =>
              ex_result.d.harmonic_vs_percussive
                  = ClampedDominance(ex_lib.harmonic, ex_lib.percussive)

\* percussive RMS 0 with a positive harmonic RMS: the score is 100
C9_Witness ==
    /\ ReturnedDict
    /\ ex_lib.percussive = Num(0)
    /\ ex_lib.harmonic = Fin(3, 10)
    /\ ex_result.d.harmonic_vs_percussive = Num(100)

\* percussive RMS positive, harmonic below it: the score is strictly inside
C9_WitnessPositive ==
    /\ ReturnedDict
    /\ ex_lib.percussive = Fin(1, 10)
    /\ ex_lib.harmonic = Fin(1, 20)
    /\ ex_result.d.harmonic_vs_percussive = Fin(200, 3)

----------------------------------------------------------------------------
(* Properties of analyze_audio (checked under Spec)                        *)

Done(r) == pc[r] = "done"

\* the request has created its temporary file and has not ended
InFlight(r) == pc[r] \in {"read", "write", "extract", "remove1", "remove2"}

\* the file the request created is still linked in the temp directory
FileExists(r) == temp_file_path[r] # 0 /\ fs[temp_file_path[r]] = r

\* C1: a request whose extractor call returned a score mapping ends with a
\* 200 response carrying that mapping; the cleanup does not change it.
C1_SuccessGives200 ==
    \A r \in Reqs :
        (Done(r) /\ analysis_data[r].tag = "dict") =>
            /\ pending[r].tag = "return"
            /\ pending[r].value = analysis_data[r].d
            /\ status_code(pending[r]) = 200

\* C2: a request whose extractor call returned None ends with the HTTP
\* error 500 "Analysis failed" leaving the handler, and no other error.
C2_FailureGives500 ==
    \A r \in Reqs :
        (Done(r) /\ analysis_data[r].tag = "None") =>
            /\ pending[r].tag = "HTTPException"
            /\ pending[r].status_code = 500
            /\ pending[r].detail = "Analysis failed"

\* C3: once the upload is written and the extractor has been called, the
\* file the request created no longer exists when the request ends, however
\* the extractor call ended (mapping, None, or an exception propagating).
C3_FileRemoved ==
    \A r \in Reqs : (Done(r) /\ extractor_called[r]) => ~FileExists(r)

\* two requests have ended, one after a mapping and one after an exception
\* that propagated out of the extractor, and neither file exists
C3_Witness ==
    \E r, q \in Reqs :
        /\ Done(r) /\ analysis_data[r].tag = "dict" /\ ~FileExists(r)
        /\ Done(q) /\ analysis_data[q].tag = "raise" /\ ~FileExists(q)
        /\ r \in deleted[r]
        /\ q \in deleted[q]

\* a request has ended after the extractor returned None, its file removed
C3_WitnessNone ==
    \E r \in Reqs :
        /\ Done(r) /\ analysis_data[r].tag = "None"
        /\ r \in deleted[r] /\ ~FileExists(r)

\* C4: a request with a missing or empty filename ends with the 400 error
\* before any processing: no temporary file is created, the body is not
\* read, the extractor is not called.
C4_NoFileGives400 ==
    \A r \in Reqs :
        filename[r] \in {"<None>", ""} =>
            /\ Done(r)
            /\ pending[r].tag = "HTTPException"
            /\ pending[r].status_code = 400
            /\ temp_file_path[r] = 0
            /\ content[r] = "none"
            /\ \A n \in Names : fs[n] # r
            /\ ~body_read[r]
            /\ ~extractor_called[r]

\* one request arrived with an empty filename and one with none at all
C4_Witness ==
    \E r, q \in Reqs :
        /\ filename[r] = "" /\ Done(r)
        /\ filename[q] = "<None>" /\ Done(q)

\* C7: in-flight requests have distinct paths, the extractor of a request
\* opens only that request's own file, and the cleanup of a request unlinks
\* no file of another request.
C7_Isolation ==
    /\ \A r, q \in Reqs :
          (r # q /\ InFlight(r) /\ InFlight(q))
              => temp_file_path[r] # temp_file_path[q]
    /\ \A r \in Reqs : read_from[r] \in {0, r}
    /\ \A r \in Reqs : deleted[r] \subseteq {r}

\* C10: no temporary file created by a request exists once the request has
\* ended, whichever step failed.
C10_NoLeak ==
    \A r \in Reqs : Done(r) => ~FileExists(r)

====
